---- MODULE Spec2Model ----
(***************************************************************************)
(* State-machine model of roslibpy's CLI (IronPython / .NET) transport:    *)
(* src/roslibpy/comm/comm_cli.py.                                          *)
(*                                                                         *)
(*   CliRosBridgeProtocol       framing engine on one ClientWebSocket      *)
(*   CliRosBridgeClientFactory  connect / ready / on_ready                 *)
(*   CliEventLoopManager        cancellation token, disconnect event       *)
(*                                                                         *)
(* Every handler of the source is one action, or one action per step where *)
(* the handler blocks (SemaphoreSlim.Wait, ManualResetEventSlim.Wait) or   *)
(* runs on another thread (Task continuations), so that the interleavings  *)
(* of the .NET thread pool are the interleavings of the model.             *)
(***************************************************************************)
EXTENDS Integers, Sequences, FiniteSets, TLC

(* ----------------------------- constants ------------------------------ *)

\* comm_cli.py:16 and :17
RECEIVE_CHUNK_SIZE == 1024
SEND_CHUNK_SIZE == 1024

\* SemaphoreSlim(1): the initial count; no maximum count is given (line 30)
SEMAPHORE_INITIAL == 1

(* ------------------------------- bounds ------------------------------- *)

\* connect() calls made on one factory
MaxConnects == 2
\* on_ready() calls made on one factory
MaxCallers == 2
\* inbound logical messages the server sends on the connection
MaxMsgs == 2
\* fragments (reads) of one inbound logical message
MaxFrags == 3
\* chunks of the longest outbound payload
MaxChunks == 3
\* explicit dispose() calls (close, destructor) on the protocol
MaxDisposes == 1
\* call_later calls made on the manager
MaxTimers == 2

Conns == 1 .. MaxConnects
Callers == 1 .. MaxCallers
Timers == 1 .. MaxTimers
Senders == {"s1", "s2"}
Parties == Senders \cup {"rx"}
\* dispose() runs as: explicit calls, and the continuation of send_close's task
Disposers == (1 .. MaxDisposes) \cup {0}
CloseTask == 0

\* The protocol instance whose framing engine is modelled in full
P == 1

VARIABLES
  \* ---- CliRosBridgeClientFactory and the sockets it provisions
  connectTask,   \* [Conns -> unissued | pending | ok | faulted | canceled]
  sockState,     \* [Conns -> WebSocketState of the ClientWebSocket]
  socket,        \* [Conns -> "unborn" | "sock" | "None"]: protocol.socket
  onOpenPc,      \* [Conns -> position of the on_open continuation]
  proto,         \* factory.proto: 0 (None) or a protocol
  readyEmits,    \* emit('ready', ...) calls made
  onceReady,     \* callbacks registered with once('ready', ...)
  cbPc,          \* [Callers -> position of the on_ready call]
  cbCalls,       \* [Callers -> times the callback was invoked]
  cbArg,         \* [Callers -> protocol passed at the last invocation]
  \* ---- CliEventLoopManager
  cancelled,     \* cancellation_token.IsCancellationRequested
  cancelCalls,   \* Cancel() calls made on the token source
  disconnectEvent,   \* _disconnect_event.IsSet
  disconnectSignals, \* trigger_disconnect() calls made
  rfPc,          \* run_forever: idle | waiting | returned | cancelled
  terminated,    \* terminate() has been called
  clPc,          \* [Timers -> position of the call_later closure]
  fnCalls,       \* [Timers -> times the call_later callback was invoked]
  \* ---- CliRosBridgeProtocol P
  permits,       \* semaphore.CurrentCount
  held,          \* [Parties -> acquisitions not yet matched by a release]
  llPc,          \* start_listening: position of the listening loop
  rxPc,          \* receive_chunk_async: position of the chunk pump
  rxResult,      \* result of the read that completed last
  content,       \* context['content'] of the message being assembled
  mre,           \* context['mre'].IsSet
  dispatched,    \* texts handed to on_message, in order
  handlerRaised, \* for each on_message call, whether the handler raised
  wire,          \* fragments of each inbound message the server began
  plan,          \* fragments of the current inbound message still to come
  sPc,           \* [Senders -> position of the send_message call]
  sLen,          \* [Senders -> message_length]
  sIdx,          \* [Senders -> i of send_chunk_async]
  sWrites,       \* [Senders -> SendAsync calls issued: <<offset, count, last>>]
  sFaulted,      \* [Senders -> a SendAsync task of this send faulted]
  dPc,           \* [Disposers -> position of the dispose() call]
  sockDisposes   \* socket.Dispose() calls made on P's socket

factoryVars == <<connectTask, sockState, socket, onOpenPc, proto, readyEmits,
                 onceReady, cbPc, cbCalls, cbArg>>
managerVars == <<cancelled, cancelCalls, disconnectEvent, disconnectSignals,
                 rfPc, terminated, clPc, fnCalls>>
rxVars == <<llPc, rxPc, rxResult, content, mre, dispatched, handlerRaised,
            wire, plan>>
sendVars == <<sPc, sLen, sIdx, sWrites, sFaulted>>
lockVars == <<permits, held>>
disposeVars == <<dPc, sockDisposes>>
vars == <<factoryVars, managerVars, rxVars, sendVars, lockVars, disposeVars>>

(* ------------------------- transport values --------------------------- *)

\* A WebSocketReceiveResult, or how the ReceiveAsync task ended otherwise:
\* type is Text, Close, Fault or Canceled; m, j name fragment j of message m.
NoResult == [type |-> "None", eom |-> FALSE, m |-> 0, j |-> 0]

\* States in which the ClientWebSocket accepts SendAsync / ReceiveAsync
SendStates == {"Open", "CloseReceived"}
ReceiveStates == {"Open", "CloseSent"}

(* ----------------------------- Init ----------------------------------- *)

\* CliRosBridgeClientFactory.__init__ and CliEventLoopManager.__init__:
\* no connect() yet, so no socket and no protocol exist.
Init ==
  /\ connectTask = [c \in Conns |-> "unissued"]
  /\ sockState = [c \in Conns |-> "None"]
  /\ socket = [c \in Conns |-> "unborn"]
  /\ onOpenPc = [c \in Conns |-> "idle"]
  /\ proto = 0
  /\ readyEmits = 0
  /\ onceReady = {}
  /\ cbPc = [k \in Callers |-> "idle"]
  /\ cbCalls = [k \in Callers |-> 0]
  /\ cbArg = [k \in Callers |-> 0]
  /\ cancelled = FALSE
  /\ cancelCalls = 0
  /\ disconnectEvent = FALSE
  /\ disconnectSignals = 0
  /\ rfPc = "idle"
  /\ terminated = FALSE
  /\ clPc = [k \in Timers |-> "idle"]
  /\ fnCalls = [k \in Timers |-> 0]
  /\ permits = SEMAPHORE_INITIAL
  /\ held = [p \in Parties |-> 0]
  /\ llPc = "unstarted"
  /\ rxPc = "idle"
  /\ rxResult = NoResult
  /\ content = <<>>
  /\ mre = FALSE
  /\ dispatched = <<>>
  /\ handlerRaised = <<>>
  /\ wire = <<>>
  /\ plan = 0
  /\ sPc = [s \in Senders |-> "idle"]
  /\ sLen = [s \in Senders |-> 0]
  /\ sIdx = [s \in Senders |-> 0]
  /\ sWrites = [s \in Senders |-> <<>>]
  /\ sFaulted = [s \in Senders |-> FALSE]
  /\ dPc = [d \in Disposers |-> "idle"]
  /\ sockDisposes = 0

(* ------------------- CliRosBridgeClientFactory ------------------------ *)

\* connect(): a new ClientWebSocket, ConnectAsync issued with the manager's
\* token, a protocol built around the socket at once (line 234), and on_open
\* attached as the continuation of the connect task.
connect(c) ==
  /\ connectTask[c] = "unissued"
  /\ \A b \in Conns : b < c => connectTask[b] # "unissued"
  /\ connectTask' = [connectTask EXCEPT ![c] =
                       IF cancelled THEN "canceled" ELSE "pending"]
  /\ sockState' = [sockState EXCEPT ![c] =
                       IF cancelled THEN "Closed" ELSE "Connecting"]
  /\ socket' = [socket EXCEPT ![c] = "sock"]
  /\ UNCHANGED <<onOpenPc, proto, readyEmits, onceReady, cbPc, cbCalls, cbArg>>
  /\ UNCHANGED <<managerVars, rxVars, sendVars, lockVars, disposeVars>>

\* The transport ends the handshake: it succeeds, fails, or is cancelled by
\* the token.  A socket whose connect did not succeed reports Closed.
ConnectCompletes(c, outcome) ==
  /\ connectTask[c] = "pending"
  /\ outcome = "canceled" => cancelled
  /\ outcome = "ok" => sockState[c] = "Connecting"
  /\ connectTask' = [connectTask EXCEPT ![c] = outcome]
  /\ sockState' = [sockState EXCEPT ![c] =
                     IF sockState[c] # "Connecting" THEN sockState[c]
                     ELSE IF outcome = "ok" THEN "Open" ELSE "Closed"]
  /\ UNCHANGED <<socket, onOpenPc, proto, readyEmits, onceReady, cbPc, cbCalls,
                 cbArg>>
  /\ UNCHANGED <<managerVars, rxVars, sendVars, lockVars, disposeVars>>

\* EventEmitterMixin.emit('ready', p): every callback registered with once is
\* invoked with p and dropped from the registry.
emit_ready(p) ==
  /\ cbCalls' = [k \in Callers |->
                   IF k \in onceReady THEN cbCalls[k] + 1 ELSE cbCalls[k]]
  /\ cbArg' = [k \in Callers |-> IF k \in onceReady THEN p ELSE cbArg[k]]
  /\ onceReady' = {}

\* ready(proto), first statement: self.proto = proto
ready_assign(c) ==
  /\ proto' = c

\* on_open(task): ContinueWith runs it when the connect task has completed,
\* whatever its outcome; the task argument is not looked at.
\* Step 1, factory.ready(self) line 240.
on_open_ready(c) ==
  /\ connectTask[c] \in {"ok", "faulted", "canceled"}
  /\ onOpenPc[c] = "idle"
  /\ ready_assign(c)
  /\ onOpenPc' = [onOpenPc EXCEPT ![c] = "emit"]
  /\ UNCHANGED <<connectTask, sockState, socket, readyEmits, onceReady, cbPc,
                 cbCalls, cbArg>>
  /\ UNCHANGED <<managerVars, rxVars, sendVars, lockVars, disposeVars>>

\* Step 2, factory.ready(self) line 241.
on_open_emit(c) ==
  /\ onOpenPc[c] = "emit"
  /\ readyEmits' = readyEmits + 1
  /\ emit_ready(c)
  /\ onOpenPc' = [onOpenPc EXCEPT ![c] = "thread"]
  /\ UNCHANGED <<connectTask, sockState, socket, proto, cbPc>>
  /\ UNCHANGED <<managerVars, rxVars, sendVars, lockVars, disposeVars>>

\* Step 3, manager.call_in_thread(self.start_listening): Task.Factory.StartNew
\* with the manager's token; a task created under a cancelled token never runs.
on_open_listen(c) ==
  /\ onOpenPc[c] = "thread"
  /\ onOpenPc' = [onOpenPc EXCEPT ![c] = "done"]
  /\ llPc' = IF c = P /\ ~cancelled THEN "scheduled" ELSE llPc
  /\ UNCHANGED <<connectTask, sockState, socket, proto, readyEmits, onceReady,
                 cbPc, cbCalls, cbArg>>
  /\ UNCHANGED <<rxPc, rxResult, content, mre, dispatched, handlerRaised, wire, plan>>
  /\ UNCHANGED <<managerVars, sendVars, lockVars, disposeVars>>

\* on_ready(callback), line 244: the test of self.proto; when it is set the
\* callback runs at once with it (line 245).
on_ready_test(k) ==
  /\ cbPc[k] = "idle"
  /\ IF proto # 0
       THEN /\ cbCalls' = [cbCalls EXCEPT ![k] = @ + 1]
            /\ cbArg' = [cbArg EXCEPT ![k] = proto]
            /\ cbPc' = [cbPc EXCEPT ![k] = "done"]
       ELSE /\ cbPc' = [cbPc EXCEPT ![k] = "once"]
            /\ UNCHANGED <<cbCalls, cbArg>>
  /\ UNCHANGED <<connectTask, sockState, socket, onOpenPc, proto, readyEmits,
                 onceReady>>
  /\ UNCHANGED <<managerVars, rxVars, sendVars, lockVars, disposeVars>>

\* on_ready(callback), line 247: self.once('ready', callback)
on_ready_once(k) ==
  /\ cbPc[k] = "once"
  /\ onceReady' = onceReady \cup {k}
  /\ cbPc' = [cbPc EXCEPT ![k] = "done"]
  /\ UNCHANGED <<connectTask, sockState, socket, onOpenPc, proto, readyEmits,
                 cbCalls, cbArg>>
  /\ UNCHANGED <<managerVars, rxVars, sendVars, lockVars, disposeVars>>

(* ------------------------ CliEventLoopManager ------------------------- *)

\* trigger_disconnect(): _disconnect_event.Set()
trigger_disconnect ==
  /\ disconnectEvent' = TRUE
  /\ disconnectSignals' = disconnectSignals + 1

\* cancellation_token_source.Cancel()
Cancel ==
  /\ cancelled' = TRUE
  /\ cancelCalls' = cancelCalls + 1

\* terminate(): fires the token.
terminate ==
  /\ ~terminated
  /\ terminated' = TRUE
  /\ Cancel
  /\ UNCHANGED <<disconnectEvent, disconnectSignals, rfPc, clPc, fnCalls>>
  /\ UNCHANGED <<factoryVars, rxVars, sendVars, lockVars, disposeVars>>

\* run_forever(), entry of _disconnect_event.Wait(token): a token already
\* cancelled raises at once, a set event returns at once.
run_forever ==
  /\ rfPc = "idle"
  /\ rfPc' = IF cancelled THEN "cancelled"
             ELSE IF disconnectEvent THEN "returned" ELSE "waiting"
  /\ UNCHANGED <<cancelled, cancelCalls, disconnectEvent, disconnectSignals,
                 terminated, clPc, fnCalls>>
  /\ UNCHANGED <<factoryVars, rxVars, sendVars, lockVars, disposeVars>>

\* run_forever() blocked in Wait: woken by the event or by the token; a
\* woken waiter that finds the event set returns normally.
run_forever_wake ==
  /\ rfPc = "waiting"
  /\ disconnectEvent \/ cancelled
  /\ rfPc' = IF disconnectEvent THEN "returned" ELSE "cancelled"
  /\ UNCHANGED <<cancelled, cancelCalls, disconnectEvent, disconnectSignals,
                 terminated, clPc, fnCalls>>
  /\ UNCHANGED <<factoryVars, rxVars, sendVars, lockVars, disposeVars>>

\* call_later(delay, callback), line 289: Task.Factory.StartNew(closure,
\* token).  A task created under a token already cancelled is cancelled at
\* once and never runs.
call_later(k) ==
  /\ clPc[k] = "idle"
  /\ clPc' = [clPc EXCEPT ![k] = IF cancelled THEN "canceled" ELSE "queued"]
  /\ UNCHANGED <<cancelled, cancelCalls, disconnectEvent, disconnectSignals,
                 rfPc, terminated, fnCalls>>
  /\ UNCHANGED <<factoryVars, rxVars, sendVars, lockVars, disposeVars>>

\* The task of call_later gets a thread: the scheduler drops a task whose
\* token was cancelled before it started; otherwise closure() begins with
\* Thread.Sleep(delay * 1000), line 286.
call_later_closure(k) ==
  /\ clPc[k] = "queued"
  /\ clPc' = [clPc EXCEPT ![k] = IF cancelled THEN "canceled" ELSE "sleeping"]
  /\ UNCHANGED <<cancelled, cancelCalls, disconnectEvent, disconnectSignals,
                 rfPc, terminated, fnCalls>>
  /\ UNCHANGED <<factoryVars, rxVars, sendVars, lockVars, disposeVars>>

\* Thread.Sleep returns when the delay has elapsed (it takes no token), and
\* line 287 calls callback().
call_later_callback(k) ==
  /\ clPc[k] = "sleeping"
  /\ fnCalls' = [fnCalls EXCEPT ![k] = @ + 1]
  /\ clPc' = [clPc EXCEPT ![k] = "done"]
  /\ UNCHANGED <<cancelled, cancelCalls, disconnectEvent, disconnectSignals,
                 rfPc, terminated>>
  /\ UNCHANGED <<factoryVars, rxVars, sendVars, lockVars, disposeVars>>

(* ------------------- the write lock (SemaphoreSlim) ------------------- *)

\* semaphore.Wait(token) succeeding for party p
SemaphoreWait(p) ==
  /\ permits' = permits - 1
  /\ held' = [held EXCEPT ![p] = @ + 1]

\* semaphore.Release() called by party p: the count grows by one whether or
\* not p had acquired (the semaphore has no maximum count and no owner).
SemaphoreRelease(p) ==
  /\ permits' = permits + 1
  /\ held' = [held EXCEPT ![p] = IF @ > 0 THEN @ - 1 ELSE 0]

(* --------------------------- socket calls ----------------------------- *)

\* How a SendAsync / ReceiveAsync / CloseAsync call through self.socket ends:
\*   attr   self.socket is None: AttributeError
\*   throw  the call raises (disposed socket; or a socket in a wrong state,
\*          where the build decides between raising and a faulted task)
\*   task   the call returns a task
IoCall(valid) ==
  IF socket[P] # "sock" THEN {"attr"}
  ELSE IF sockDisposes > 0 THEN {"throw"}
  ELSE IF sockState[P] \in valid THEN {"task"}
  ELSE {"throw", "task"}

\* Whether a task issued on the socket ends without success at this moment
TaskFails(valid) == cancelled \/ sockState[P] \notin valid \/ sockDisposes > 0

\* The socket's state once an I/O task on it was cancelled or has failed
AbortedState(st) ==
  IF st \in {"Open", "CloseReceived", "CloseSent"} THEN "Aborted" ELSE st

(* ----------------------- inbound text (UTF-8) -------------------------- *)

\* The bytes the server puts in fragment j of its message m: the fragments
\* differ from one another, and a two-byte character (195 169) is split
\* between fragment 1 and fragment 2.
FragBytes(m, j) ==
  CASE j % 3 = 1 -> <<64 + m, 195>>
    [] j % 3 = 2 -> <<169, 48 + j>>
    [] OTHER     -> <<195, 169, 96 + m>>

REPLACEMENT_CHAR == 65533

\* Encoding.UTF8.GetString(buffer, 0, count) on the first count bytes of the
\* receive buffer: one-byte and two-byte sequences decode to their code
\* point, a byte that starts or continues nothing valid to U+FFFD.
RECURSIVE Utf8GetString(_)
Utf8GetString(bytes) ==
  IF bytes = <<>> THEN <<>>
  ELSE LET b == Head(bytes) IN
    IF b < 128 THEN <<b>> \o Utf8GetString(Tail(bytes))
    ELSE IF /\ b >= 194 /\ b < 224 /\ Len(bytes) >= 2
            /\ bytes[2] >= 128 /\ bytes[2] < 192
      THEN <<(b - 192) * 64 + (bytes[2] - 128)>>
             \o Utf8GetString(Tail(Tail(bytes)))
    ELSE <<REPLACEMENT_CHAR>> \o Utf8GetString(Tail(bytes))

\* ''.join(content)
RECURSIVE Join(_)
Join(chunks) ==
  IF chunks = <<>> THEN <<>> ELSE Head(chunks) \o Join(Tail(chunks))

(* --------------------- the server and the network --------------------- *)

\* The server begins a logical message of n fragments.
ServerSends(n) ==
  /\ sockState[P] = "Open"
  /\ plan = 0
  /\ Len(wire) < MaxMsgs
  /\ wire' = Append(wire, n)
  /\ plan' = n
  /\ UNCHANGED <<llPc, rxPc, rxResult, content, mre, dispatched, handlerRaised>>
  /\ UNCHANGED <<factoryVars, managerVars, sendVars, lockVars, disposeVars>>

\* The connection breaks.
NetworkFails ==
  /\ sockState[P] = "Open"
  /\ sockState' = [sockState EXCEPT ![P] = "Aborted"]
  /\ UNCHANGED <<connectTask, socket, onOpenPc, proto, readyEmits, onceReady,
                 cbPc, cbCalls, cbArg>>
  /\ UNCHANGED <<managerVars, rxVars, sendVars, lockVars, disposeVars>>

\* The outstanding ReceiveAsync completes with the next fragment of the
\* message on the wire; the last fragment carries EndOfMessage.
ReceiveFragment ==
  /\ rxPc = "reading"
  /\ ~TaskFails(ReceiveStates)
  /\ plan > 0
  /\ rxResult' = [type |-> "Text", eom |-> (plan = 1), m |-> Len(wire),
                  j |-> wire[Len(wire)] - plan + 1]
  /\ plan' = plan - 1
  /\ rxPc' = "completed"
  /\ UNCHANGED <<llPc, content, mre, dispatched, handlerRaised, wire>>
  /\ UNCHANGED <<factoryVars, managerVars, sendVars, lockVars, disposeVars>>

\* The outstanding ReceiveAsync completes with the server's close frame.
ReceiveClose ==
  /\ rxPc = "reading"
  /\ ~TaskFails(ReceiveStates)
  /\ plan = 0
  /\ rxResult' = [type |-> "Close", eom |-> TRUE, m |-> 0, j |-> 0]
  /\ rxPc' = "completed"
  /\ sockState' = [sockState EXCEPT ![P] = "CloseReceived"]
  /\ UNCHANGED <<connectTask, socket, onOpenPc, proto, readyEmits, onceReady,
                 cbPc, cbCalls, cbArg>>
  /\ UNCHANGED <<llPc, content, mre, dispatched, handlerRaised, wire, plan>>
  /\ UNCHANGED <<managerVars, sendVars, lockVars, disposeVars>>

\* The outstanding ReceiveAsync ends cancelled (the token) or faulted (the
\* socket broke or was disposed); a cancelled read aborts the socket.
ReceiveFails ==
  /\ rxPc = "reading"
  /\ TaskFails(ReceiveStates)
  /\ rxResult' = [type |-> IF cancelled THEN "Canceled" ELSE "Fault",
                  eom |-> FALSE, m |-> 0, j |-> 0]
  /\ rxPc' = "completed"
  /\ sockState' = [sockState EXCEPT ![P] = AbortedState(@)]
  /\ UNCHANGED <<connectTask, socket, onOpenPc, proto, readyEmits, onceReady,
                 cbPc, cbCalls, cbArg>>
  /\ UNCHANGED <<llPc, content, mre, dispatched, handlerRaised, wire, plan>>
  /\ UNCHANGED <<managerVars, sendVars, lockVars, disposeVars>>

(* --------------- CliRosBridgeProtocol: the receive path --------------- *)

\* receive_chunk_async(task_result, context) as the continuation of a read,
\* lines 44-52: task_result.Result raises for a faulted or cancelled task;
\* a fragment that is not the last enters semaphore.Wait(token), which
\* raises at once under a token already cancelled, returns at once with a
\* permit when there is one, and blocks otherwise.
receive_chunk_async ==
  /\ rxPc = "completed"
  /\ IF rxResult.type \in {"Fault", "Canceled"}
       THEN rxPc' = "raised" /\ UNCHANGED lockVars
       ELSE IF rxResult.eom
         THEN rxPc' = "handle" /\ UNCHANGED lockVars
         ELSE IF cancelled
           THEN rxPc' = "raised" /\ UNCHANGED lockVars
           ELSE IF permits > 0
             THEN rxPc' = "handle" /\ SemaphoreWait("rx")
             ELSE rxPc' = "lock" /\ UNCHANGED lockVars
  /\ UNCHANGED <<llPc, rxResult, content, mre, dispatched, handlerRaised, wire, plan>>
  /\ UNCHANGED <<factoryVars, managerVars, sendVars, disposeVars>>

\* Blocked in semaphore.Wait(token), line 51: woken by a release or by the
\* token; a woken waiter that finds a permit takes it.
receive_chunk_async_wait ==
  /\ rxPc = "lock"
  /\ permits > 0 \/ cancelled
  /\ IF permits > 0
       THEN /\ SemaphoreWait("rx")
            /\ rxPc' = "handle"
       ELSE /\ rxPc' = "raised"
            /\ UNCHANGED lockVars
  /\ UNCHANGED <<llPc, rxResult, content, mre, dispatched, handlerRaised, wire, plan>>
  /\ UNCHANGED <<factoryVars, managerVars, sendVars, disposeVars>>

\* A send_close that calls dispose at once, not when the close task is done
send_close_dispose_now(o) ==
  /\ dPc' = IF socket[P] = "sock" /\ o = "task"
              THEN [dPc EXCEPT ![CloseTask] = "called"] ELSE dPc

\* send_close(), lines 120-127: CloseAsync with CancellationToken.None, and
\* dispose attached as the continuation of the close task.
send_close(o) ==
  /\ dPc' = IF socket[P] = "sock" /\ o = "task"
              THEN [dPc EXCEPT ![CloseTask] = "closing"] ELSE dPc

\* Lines 54-57: a close frame; the pump returns send_close() and stops.
receive_chunk_async_close ==
  /\ rxPc = "handle"
  /\ rxResult.type = "Close"
  /\ \E o \in IoCall({"Open", "CloseReceived"}) :
       /\ send_close(o)
       /\ rxPc' = IF o = "throw" THEN "raised" ELSE "closed"
  /\ UNCHANGED <<llPc, rxResult, content, mre, dispatched, handlerRaised, wire, plan>>
  /\ UNCHANGED <<factoryVars, managerVars, sendVars, lockVars, sockDisposes>>

\* Lines 59-70, the last fragment: decode, append, semaphore.Release(),
\* context['mre'].Set(), return.
receive_chunk_async_last ==
  /\ rxPc = "handle"
  /\ rxResult.type = "Text"
  /\ rxResult.eom
  /\ content' = Append(content, Utf8GetString(FragBytes(rxResult.m, rxResult.j)))
  /\ SemaphoreRelease("rx")
  /\ mre' = TRUE
  /\ rxPc' = "idle"
  /\ UNCHANGED <<llPc, rxResult, dispatched, handlerRaised, wire, plan>>
  /\ UNCHANGED <<factoryVars, managerVars, sendVars, disposeVars>>

\* Lines 59-60 and 72-75, a fragment that is not the last: decode, append,
\* and issue the next ReceiveAsync with this method as its continuation.
receive_chunk_async_next ==
  /\ rxPc = "handle"
  /\ rxResult.type = "Text"
  /\ ~rxResult.eom
  /\ content' = Append(content, Utf8GetString(FragBytes(rxResult.m, rxResult.j)))
  /\ \E o \in IoCall(ReceiveStates) :
       rxPc' = IF o = "task" THEN "reading" ELSE "raised"
  /\ UNCHANGED <<llPc, rxResult, mre, dispatched, handlerRaised, wire, plan>>
  /\ UNCHANGED <<factoryVars, managerVars, sendVars, lockVars, disposeVars>>

(* ------------- CliRosBridgeProtocol: the listening loop --------------- *)

\* The task made by call_in_thread starts, unless the token was cancelled
\* before it did; lines 89-90 read self.socket.State.
start_listening ==
  /\ llPc = "scheduled"
  /\ llPc' = IF cancelled THEN "notrun"
             ELSE IF socket[P] # "sock" THEN "raised" ELSE "loop"
  /\ UNCHANGED <<rxPc, rxResult, content, mre, dispatched, handlerRaised, wire, plan>>
  /\ UNCHANGED <<factoryVars, managerVars, sendVars, lockVars, disposeVars>>

\* Line 92, the loop's condition, and lines 93-95, a fresh context.
start_listening_loop ==
  /\ llPc = "loop"
  /\ IF socket[P] = "sock" /\ sockState[P] = "Open"
       THEN /\ llPc' = "pump"
            /\ mre' = FALSE
            /\ content' = <<>>
       ELSE /\ llPc' = "exited"
            /\ UNCHANGED <<mre, content>>
  /\ UNCHANGED <<rxPc, rxResult, dispatched, handlerRaised, wire, plan>>
  /\ UNCHANGED <<factoryVars, managerVars, sendVars, lockVars, disposeVars>>

\* Lines 97-101: receive_chunk_async(None, context) issues the first read
\* (an exception there propagates out of the loop), then mre.Wait(token) is
\* entered, which raises at once under a token already cancelled.
start_listening_pump ==
  /\ llPc = "pump"
  /\ \E o \in IoCall(ReceiveStates) :
       IF o = "task"
         THEN /\ rxPc' = "reading"
              /\ llPc' = IF cancelled THEN "raised" ELSE "wait"
         ELSE /\ llPc' = "raised"
              /\ UNCHANGED rxPc
  /\ UNCHANGED <<rxResult, content, mre, dispatched, handlerRaised, wire, plan>>
  /\ UNCHANGED <<factoryVars, managerVars, sendVars, lockVars, disposeVars>>

\* An mre.Wait() that can time out: it returns with the signal not set too
start_listening_wait_timeout ==
  /\ llPc = "wait"
  /\ llPc' = IF mre \/ ~cancelled THEN "dispatch" ELSE "raised"
  /\ UNCHANGED <<rxPc, rxResult, content, mre, dispatched, handlerRaised,
                 wire, plan>>
  /\ UNCHANGED <<factoryVars, managerVars, sendVars, lockVars, disposeVars>>

\* An mre.Wait() that takes no token: only Set wakes it
start_listening_wait_no_token ==
  /\ llPc = "wait"
  /\ mre
  /\ llPc' = "dispatch"
  /\ UNCHANGED <<rxPc, rxResult, content, mre, dispatched, handlerRaised,
                 wire, plan>>
  /\ UNCHANGED <<factoryVars, managerVars, sendVars, lockVars, disposeVars>>

\* Blocked in mre.Wait(token), line 101: woken by Set or by the token; a
\* woken waiter that finds the event set returns normally.
start_listening_wait ==
  /\ llPc = "wait"
  /\ mre \/ cancelled
  /\ llPc' = IF mre THEN "dispatch" ELSE "raised"
  /\ UNCHANGED <<rxPc, rxResult, content, mre, dispatched, handlerRaised, wire, plan>>
  /\ UNCHANGED <<factoryVars, managerVars, sendVars, lockVars, disposeVars>>

\* A dispatch with no except clause around on_message: what the handler
\* raises leaves the loop
start_listening_dispatch_uncaught ==
  /\ llPc = "dispatch"
  /\ dispatched' = Append(dispatched, Join(content))
  /\ \E raises \in BOOLEAN :
       /\ handlerRaised' = Append(handlerRaised, raises)
       /\ llPc' = IF raises THEN "raised" ELSE "loop"
  /\ UNCHANGED <<rxPc, rxResult, content, mre, wire, plan>>
  /\ UNCHANGED <<factoryVars, managerVars, sendVars, lockVars, disposeVars>>

\* Lines 103-109: on_message(''.join(content)); the handler returns or
\* raises, and what it raises is caught and logged (line 107): the loop goes
\* on either way.
start_listening_dispatch ==
  /\ llPc = "dispatch"
  /\ dispatched' = Append(dispatched, Join(content))
  /\ \E raises \in BOOLEAN : handlerRaised' = Append(handlerRaised, raises)
  /\ llPc' = "loop"
  /\ UNCHANGED <<rxPc, rxResult, content, mre, wire, plan>>
  /\ UNCHANGED <<factoryVars, managerVars, sendVars, lockVars, disposeVars>>

(* ---------------- CliRosBridgeProtocol: the send path ----------------- *)

\* Line 176: int(math.ceil(float(message_length) / SEND_CHUNK_SIZE))
chunks_count(message_length) ==
  IF message_length % SEND_CHUNK_SIZE = 0
    THEN message_length \div SEND_CHUNK_SIZE
    ELSE message_length \div SEND_CHUNK_SIZE + 1

\* Line 134
chunk_offset(i) == SEND_CHUNK_SIZE * i

\* Line 135
is_last_message(i, count_of_chunks) == (i = count_of_chunks - 1)

\* A chunking that gives every chunk, the last one too, the full chunk size
chunk_count_full(message_length, i) == SEND_CHUNK_SIZE

\* Lines 137-140
chunk_count(message_length, i) ==
  IF is_last_message(i, chunks_count(message_length))
    THEN message_length - chunk_offset(i)
    ELSE SEND_CHUNK_SIZE

\* Line 174: message_buffer = Encoding.UTF8.GetBytes(payload), for a payload
\* of message_length bytes whose bytes differ with their position.
message_buffer(message_length) ==
  [k \in 1 .. message_length |-> (k + k \div SEND_CHUNK_SIZE) % 256]

\* Line 142: the bytes the segment (message_buffer, offset, count) shows
ArraySegment(buffer, offset, count) == SubSeq(buffer, offset + 1, offset + count)

\* Line 142: ArraySegment[Byte](message_buffer, offset, count) raises
\* ArgumentException unless the segment lies inside the buffer.
ArraySegmentValid(message_length, offset, count) ==
  /\ offset >= 0
  /\ count >= 0
  /\ message_length - offset >= count

\* A send_message that enters the lock before it tests the socket's state
send_message_lock_first(s, L) ==
  /\ sPc[s] = "idle"
  /\ proto = P
  /\ socket[P] = "sock"
  /\ ~cancelled
  /\ permits > 0
  /\ SemaphoreWait(s)
  /\ sLen' = [sLen EXCEPT ![s] = L]
  /\ sIdx' = [sIdx EXCEPT ![s] = 0]
  /\ sPc' = [sPc EXCEPT ![s] =
               IF sockState[P] # "Open" THEN "notOpen" ELSE "chunk"]
  /\ UNCHANGED <<sWrites, sFaulted>>
  /\ UNCHANGED <<factoryVars, managerVars, rxVars, disposeVars>>

\* send_message(payload), lines 164-179: the state test, then
\* semaphore.Wait(token), which raises at once under a token already
\* cancelled, returns at once with a permit when there is one (the payload
\* is then encoded and send_chunk_async called with i = 0), and blocks
\* otherwise.  L is the length of Encoding.UTF8.GetBytes(payload).  A caller
\* has the protocol from the factory (factory.proto, on_ready), so from
\* ready() on.
send_message(s, L) ==
  /\ sPc[s] = "idle"
  /\ proto = P
  /\ IF socket[P] = "None"
       THEN /\ sPc' = [sPc EXCEPT ![s] = "crashed"]
            /\ UNCHANGED <<sLen, sIdx, lockVars>>
       ELSE IF sockState[P] # "Open"
         THEN /\ sPc' = [sPc EXCEPT ![s] = "notOpen"]
              /\ UNCHANGED <<sLen, sIdx, lockVars>>
         ELSE IF cancelled
           THEN /\ sPc' = [sPc EXCEPT ![s] = "cancelled"]
                /\ UNCHANGED <<sLen, sIdx, lockVars>>
           ELSE /\ sLen' = [sLen EXCEPT ![s] = L]
                /\ sIdx' = [sIdx EXCEPT ![s] = 0]
                /\ IF permits > 0
                     THEN /\ SemaphoreWait(s)
                          /\ sPc' = [sPc EXCEPT ![s] = "chunk"]
                     ELSE /\ sPc' = [sPc EXCEPT ![s] = "lock"]
                          /\ UNCHANGED lockVars
  /\ UNCHANGED <<sWrites, sFaulted>>
  /\ UNCHANGED <<factoryVars, managerVars, rxVars, disposeVars>>

\* A semaphore.Wait() that takes no token: only a release wakes it
send_message_wait_no_token(s) ==
  /\ sPc[s] = "lock"
  /\ permits > 0
  /\ SemaphoreWait(s)
  /\ sPc' = [sPc EXCEPT ![s] = "chunk"]
  /\ UNCHANGED <<sLen, sIdx, sWrites, sFaulted>>
  /\ UNCHANGED <<factoryVars, managerVars, rxVars, disposeVars>>

\* Blocked in semaphore.Wait(token), line 172: woken by a release or by the
\* token; a woken waiter that finds a permit takes it.
send_message_wait(s) ==
  /\ sPc[s] = "lock"
  /\ permits > 0 \/ cancelled
  /\ IF permits > 0
       THEN /\ SemaphoreWait(s)
            /\ sPc' = [sPc EXCEPT ![s] = "chunk"]
       ELSE /\ sPc' = [sPc EXCEPT ![s] = "cancelled"]
            /\ UNCHANGED lockVars
  /\ UNCHANGED <<sLen, sIdx, sWrites, sFaulted>>
  /\ UNCHANGED <<factoryVars, managerVars, rxVars, disposeVars>>

\* send_chunk_async(task_result, message_data), lines 132-156, for chunk
\* i = sIdx[s]: the segment, SendAsync, and then either the continuation for
\* chunk i + 1 or, on the last chunk, semaphore.Release().  An exception
\* (ArgumentException, AttributeError, a raising SendAsync) leaves through
\* the except clause, which logs and re-raises.
send_chunk_async(s) ==
  /\ sPc[s] = "chunk"
  /\ LET i == sIdx[s]
         offset == chunk_offset(i)
         last == is_last_message(i, chunks_count(sLen[s]))
         count == chunk_count(sLen[s], i)
     IN IF ~ArraySegmentValid(sLen[s], offset, count)
          THEN /\ sPc' = [sPc EXCEPT ![s] = "failed"]
               /\ UNCHANGED <<sWrites, lockVars>>
          ELSE \E o \in IoCall(SendStates) :
                 IF o # "task"
                   THEN /\ sPc' = [sPc EXCEPT ![s] = "failed"]
                        /\ UNCHANGED <<sWrites, lockVars>>
                   ELSE /\ sWrites' = [sWrites EXCEPT ![s] =
                                         Append(@, <<offset, count, last>>)]
                        /\ IF last
                             THEN /\ SemaphoreRelease(s)
                                  /\ sPc' = [sPc EXCEPT ![s] = "lastPending"]
                             ELSE /\ UNCHANGED lockVars
                                  /\ sPc' = [sPc EXCEPT ![s] = "pending"]
  /\ UNCHANGED <<sLen, sIdx, sFaulted>>
  /\ UNCHANGED <<factoryVars, managerVars, rxVars, disposeVars>>

\* The SendAsync task of sender s completes (written, faulted or cancelled;
\* a cancelled write aborts the socket).  ContinueWith runs send_chunk_async
\* for the next chunk whatever the outcome.
SendCompletes(s) ==
  /\ sPc[s] \in {"pending", "lastPending"}
  /\ sFaulted' = [sFaulted EXCEPT ![s] = @ \/ TaskFails(SendStates)]
  /\ sockState' = [sockState EXCEPT ![P] =
                     IF TaskFails(SendStates) THEN AbortedState(@) ELSE @]
  /\ IF sPc[s] = "pending"
       THEN /\ sPc' = [sPc EXCEPT ![s] = "chunk"]
            /\ sIdx' = [sIdx EXCEPT ![s] = @ + 1]
       ELSE /\ sPc' = [sPc EXCEPT ![s] = "done"]
            /\ UNCHANGED sIdx
  /\ UNCHANGED <<sLen, sWrites>>
  /\ UNCHANGED <<connectTask, socket, onOpenPc, proto, readyEmits, onceReady,
                 cbPc, cbCalls, cbArg>>
  /\ UNCHANGED <<managerVars, rxVars, lockVars, disposeVars>>

(* ------------------ CliRosBridgeProtocol: dispose --------------------- *)

\* The CloseAsync task issued by send_close completes; its continuation is
\* dispose.
CloseCompletes ==
  /\ dPc[CloseTask] = "closing"
  /\ dPc' = [dPc EXCEPT ![CloseTask] = "called"]
  /\ sockState' = [sockState EXCEPT ![P] =
                     IF @ \in {"Open", "CloseReceived", "CloseSent"}
                       THEN "Closed" ELSE @]
  /\ UNCHANGED <<connectTask, socket, onOpenPc, proto, readyEmits, onceReady,
                 cbPc, cbCalls, cbArg>>
  /\ UNCHANGED <<managerVars, rxVars, sendVars, lockVars, sockDisposes>>

\* dispose(), lines 188-192: trigger_disconnect() and Cancel(), both
\* unconditional (the token source is always set).  An explicit call (close,
\* __del__) may come once the factory has handed the protocol out; the close
\* task's call comes when that task has completed.
dispose(d) ==
  /\ IF d = CloseTask THEN dPc[d] = "called"
                      ELSE dPc[d] = "idle" /\ proto = P
  /\ trigger_disconnect
  /\ Cancel
  /\ dPc' = [dPc EXCEPT ![d] = "test"]
  /\ UNCHANGED <<rfPc, terminated, clPc, fnCalls, sockDisposes>>
  /\ UNCHANGED <<factoryVars, rxVars, sendVars, lockVars>>

\* dispose(), line 194: if self.socket
dispose_test(d) ==
  /\ dPc[d] = "test"
  /\ dPc' = [dPc EXCEPT ![d] = IF socket[P] = "sock" THEN "dispose" ELSE "done"]
  /\ UNCHANGED sockDisposes
  /\ UNCHANGED <<factoryVars, managerVars, rxVars, sendVars, lockVars>>

\* dispose(), line 195: self.socket.Dispose(); AttributeError when another
\* dispose() has cleared self.socket since the test.
dispose_socket(d) ==
  /\ dPc[d] = "dispose"
  /\ IF socket[P] = "sock"
       THEN /\ sockDisposes' = sockDisposes + 1
            /\ sockState' = [sockState EXCEPT ![P] =
                               IF @ = "Connecting" THEN "Closed"
                               ELSE AbortedState(@)]
            /\ dPc' = [dPc EXCEPT ![d] = "clear"]
       ELSE /\ dPc' = [dPc EXCEPT ![d] = "raised"]
            /\ UNCHANGED <<sockDisposes, sockState>>
  /\ UNCHANGED <<connectTask, socket, onOpenPc, proto, readyEmits, onceReady,
                 cbPc, cbCalls, cbArg>>
  /\ UNCHANGED <<managerVars, rxVars, sendVars, lockVars>>

\* dispose(), line 196: self.socket = None
dispose_clear(d) ==
  /\ dPc[d] = "clear"
  /\ socket' = [socket EXCEPT ![P] = "None"]
  /\ dPc' = [dPc EXCEPT ![d] = "done"]
  /\ UNCHANGED sockDisposes
  /\ UNCHANGED <<connectTask, sockState, onOpenPc, proto, readyEmits, onceReady,
                 cbPc, cbCalls, cbArg>>
  /\ UNCHANGED <<managerVars, rxVars, sendVars, lockVars>>

(* --------------------------- specifications --------------------------- *)

\* Payload lengths sent in Spec: the empty payload, one full chunk, and
\* MaxChunks chunks with a short last one (2500 bytes for three chunks).
SendLens == {0, SEND_CHUNK_SIZE, (MaxChunks - 1) * SEND_CHUNK_SIZE + 452}

ConnectOutcomes == {"ok", "faulted", "canceled"}

\* The steps the framing engine takes by itself once something started
\* them: continuations, woken waits, the listening loop, chunk writes, and
\* the completions of the socket tasks it issued.
Engine ==
  \/ on_open_ready(P)
  \/ on_open_emit(P)
  \/ on_open_listen(P)
  \/ ReceiveFragment
  \/ receive_chunk_async
  \/ receive_chunk_async_wait
  \/ receive_chunk_async_last
  \/ receive_chunk_async_next
  \/ start_listening
  \/ start_listening_loop
  \/ start_listening_pump
  \/ start_listening_wait
  \/ start_listening_dispatch
  \/ \E s \in Senders : send_message_wait(s)
  \/ \E s \in Senders : send_chunk_async(s)
  \/ \E s \in Senders : SendCompletes(s)

\* The steps that only a failure, a close frame, a cancellation or a
\* dispose() brings about.
Teardown ==
  \/ ReceiveFails
  \/ receive_chunk_async_close
  \/ CloseCompletes
  \/ dispose(CloseTask)
  \/ \E d \in Disposers : dispose_test(d)
  \/ \E d \in Disposers : dispose_socket(d)
  \/ \E d \in Disposers : dispose_clear(d)

\* Traffic on one connection: the handshake, then any interleaving of
\* send_message calls by two senders and of inbound messages of one to
\* MaxFrags fragments.
Traffic ==
  \/ connect(P)
  \/ \E outcome \in ConnectOutcomes : ConnectCompletes(P, outcome)
  \/ \E n \in 1 .. MaxFrags : ServerSends(n)
  \/ \E s \in Senders, L \in SendLens : send_message(s, L)

Next == Traffic \/ Engine

Spec == Init /\ [][Next]_vars

\* The end of a connection: one sender, a server that sends one message,
\* and now terminate(), explicit dispose() calls, the server's close frame
\* and a breaking network.
Shutdown ==
  \/ connect(P)
  \/ \E outcome \in ConnectOutcomes : ConnectCompletes(P, outcome)
  \/ \E n \in 1 .. MaxFrags : wire = <<>> /\ ServerSends(n)
  \/ \E L \in SendLens : send_message("s1", L)
  \/ terminate
  \/ NetworkFails
  \/ ReceiveClose
  \/ \E d \in 1 .. MaxDisposes : dispose(d)

ShutdownNext == Shutdown \/ Engine \/ Teardown

ShutdownSpec == Init /\ [][ShutdownNext]_vars

\* Cancellation: one sender, a server that sends one message, run_forever()
\* and terminate().
Cancellation ==
  \/ connect(P)
  \/ \E outcome \in ConnectOutcomes : ConnectCompletes(P, outcome)
  \/ \E n \in 1 .. MaxFrags : wire = <<>> /\ ServerSends(n)
  \/ \E L \in SendLens : send_message("s1", L)
  \/ terminate
  \/ run_forever

CancelNext == Cancellation \/ Engine \/ run_forever_wake \/ ReceiveFails

CancelSpec == Init /\ [][CancelNext]_vars

\* Inbound traffic alone: the handshake, the server's messages, and
\* terminate().
Listening ==
  \/ connect(P)
  \/ \E outcome \in ConnectOutcomes : ConnectCompletes(P, outcome)
  \/ \E n \in 1 .. MaxFrags : ServerSends(n)
  \/ terminate

\* The receive path's own steps
Receiving ==
  \/ on_open_ready(P)
  \/ on_open_emit(P)
  \/ on_open_listen(P)
  \/ ReceiveFragment
  \/ ReceiveFails
  \/ receive_chunk_async
  \/ receive_chunk_async_wait
  \/ receive_chunk_async_last
  \/ receive_chunk_async_next
  \/ start_listening
  \/ start_listening_loop
  \/ start_listening_pump
  \/ start_listening_wait
  \/ start_listening_dispatch

ListenNext == Listening \/ Receiving

\* Continuations and started tasks get a thread of the pool, a woken wait
\* gets the processor, and the transport hands over the fragments of a
\* message the server has sent: no enabled step of the receive path is put
\* off forever.
ListenSpec == Init /\ [][ListenNext]_vars /\ WF_vars(Receiving)

\* The same for the steps of CancelSpec: a cancelled task completes, and a
\* wait woken by the token runs.
CancelFairSpec ==
  CancelSpec /\ WF_vars(Engine \/ run_forever_wake \/ ReceiveFails)

\* The factory: every connect() of its lifetime, ready() and on_ready().
FactoryNext ==
  \/ \E c \in Conns : connect(c)
  \/ \E c \in Conns, outcome \in ConnectOutcomes : ConnectCompletes(c, outcome)
  \/ \E c \in Conns : on_open_ready(c)
  \/ \E c \in Conns : on_open_emit(c)
  \/ \E c \in Conns : on_open_listen(c)
  \/ \E k \in Callers : on_ready_test(k)
  \/ \E k \in Callers : on_ready_once(k)
  \/ terminate

FactorySpec == Init /\ [][FactoryNext]_vars

\* Chunking: one sender with payloads of every shape of length (empty, one
\* byte, one byte around a chunk boundary, exact multiples of the chunk size,
\* 2500 bytes, MaxChunks full chunks) and a server that sends one message.
ChunkLens ==
  {0, 1, SEND_CHUNK_SIZE - 1, SEND_CHUNK_SIZE, SEND_CHUNK_SIZE + 1,
   2 * SEND_CHUNK_SIZE, 2 * SEND_CHUNK_SIZE + 452, MaxChunks * SEND_CHUNK_SIZE}

Chunking ==
  \/ connect(P)
  \/ \E outcome \in ConnectOutcomes : ConnectCompletes(P, outcome)
  \/ \E n \in 1 .. MaxFrags : wire = <<>> /\ ServerSends(n)
  \/ \E L \in ChunkLens : send_message("s1", L)

ChunkNext == Chunking \/ Engine

ChunkSpec == Init /\ [][ChunkNext]_vars

\* Transport failure: the traffic of ListenSpec on a connection that can
\* break at any moment.
Failing ==
  \/ Listening
  \/ NetworkFails

FailNext == Failing \/ Receiving

FailSpec == Init /\ [][FailNext]_vars /\ WF_vars(Receiving)

\* Timers: call_later calls on the manager of a factory that connects, with
\* run_forever(), terminate() and an explicit dispose() of the protocol.
LaterNext ==
  \/ connect(P)
  \/ \E outcome \in ConnectOutcomes : ConnectCompletes(P, outcome)
  \/ on_open_ready(P)
  \/ on_open_emit(P)
  \/ on_open_listen(P)
  \/ \E k \in Timers : call_later(k)
  \/ \E k \in Timers : call_later_closure(k)
  \/ \E k \in Timers : call_later_callback(k)
  \/ run_forever
  \/ run_forever_wake
  \/ terminate
  \/ \E d \in Disposers \ {CloseTask} : dispose(d)
  \/ \E d \in Disposers : dispose_test(d)
  \/ \E d \in Disposers : dispose_socket(d)
  \/ \E d \in Disposers : dispose_clear(d)

LaterSpec == Init /\ [][LaterNext]_vars

\* Closing: a server that sends one message and then, or instead, a close
\* frame, with terminate() and an explicit dispose() at any moment.
Closing ==
  \/ connect(P)
  \/ \E outcome \in ConnectOutcomes : ConnectCompletes(P, outcome)
  \/ \E n \in 1 .. MaxFrags : wire = <<>> /\ ServerSends(n)
  \/ ReceiveClose
  \/ terminate
  \/ \E d \in Disposers \ {CloseTask} : dispose(d)

\* The steps of the close path and of dispose()
Disposing ==
  \/ receive_chunk_async_close
  \/ CloseCompletes
  \/ dispose(CloseTask)
  \/ \E d \in Disposers : dispose_test(d)
  \/ \E d \in Disposers : dispose_socket(d)
  \/ \E d \in Disposers : dispose_clear(d)

CloseNext == Closing \/ Receiving \/ Disposing

\* Continuations, started tasks and woken waits are not put off forever,
\* and a dispose() that has begun runs on.
CloseSpec == Init /\ [][CloseNext]_vars /\ WF_vars(Receiving \/ Disposing)

(* ------------------------------ claims -------------------------------- *)

\* The parties holding the write lock: those with an acquisition that no
\* release of theirs has matched yet.
Holders == {p \in Parties : held[p] > 0}

\* C1: in every reachable state at most one party (one send, or one
\* multi-chunk receive in progress) holds the write lock.
C1_AtMostOneHolder == Cardinality(Holders) <= 1

\* The text of the server's message m: its fragments, each decoded on its
\* own, joined in the order of arrival.
Text(m) == Join([j \in 1 .. wire[m] |-> Utf8GetString(FragBytes(m, j))])

\* C3: every inbound message the server has sent, of whatever number of
\* fragments, is eventually handed to on_message, as the m-th call and with
\* the joined text of its decoded fragments, unless the token is cancelled.
C3_EveryMessageDispatched ==
  \A m \in 1 .. MaxMsgs :
    (Len(wire) >= m)
      ~> (cancelled \/ (Len(dispatched) >= m /\ dispatched[m] = Text(m)))

\* C4: a send_message call made while the socket exists and is not Open ends
\* at once with the not-open error, and changes neither the semaphore nor
\* the writes issued.
C4_NotOpenLeavesLockAlone ==
  [][\A s \in Senders :
       (sPc[s] = "idle" /\ sPc'[s] # "idle"
          /\ socket[P] = "sock" /\ sockState[P] # "Open")
       => (sPc'[s] = "notOpen" /\ permits' = permits /\ held' = held
             /\ sWrites' = sWrites /\ sLen' = sLen)]_vars

\* C4, witness: a send has failed with the not-open error while the receive
\* path held the lock.
C4_Witness == sPc["s1"] = "notOpen" /\ held["rx"] > 0 /\ permits = 0

\* The positions at which a send_message call has ended, with or without
\* an exception, and no continuation of it is left to run.
SendEnded == {"notOpen", "crashed", "cancelled", "failed", "done"}

\* C5: once a send has ended, successfully or not, that send does not hold
\* the write lock.
C5_EndedSendHoldsNoLock ==
  \A s \in Senders : sPc[s] \in SendEnded => held[s] = 0

\* C6: a dispose() call that follows a completed dispose() releases nothing,
\* does not signal disconnect and does not cancel the token.
C6_SecondDisposeDoesNothing ==
  [][\A d \in Disposers :
       (dPc[d] # dPc'[d] /\ \E e \in Disposers \ {d} : dPc[e] = "done")
       => (sockDisposes' = sockDisposes
             /\ disconnectSignals' = disconnectSignals
             /\ cancelCalls' = cancelCalls)]_vars

FactoryQuiet ==
  /\ \A c \in Conns : connectTask[c] # "pending"
  /\ \A c \in Conns : connectTask[c] # "unissued" => onOpenPc[c] = "done"
  /\ \A k \in Callers : cbPc[k] = "done"

\* C7: whatever the interleaving of on_ready(callback) with ready(proto),
\* once both have run the callback has been invoked exactly once, with the
\* active protocol.
C7_CallbackExactlyOnce ==
  (FactoryQuiet /\ proto # 0)
    => \A k \in Callers : cbCalls[k] = 1 /\ cbArg[k] # 0

\* C8: over any sequence of connect() and ready() calls the 'ready' event is
\* emitted at most once in the factory's lifetime, and the active protocol,
\* once set, is not replaced.
C8_ReadyOnce ==
  [][(proto # 0 => proto' = proto) /\ readyEmits' <= 1]_vars

\* C10: whenever the factory is ready (proto set, 'ready' emitted, the
\* listening loop handed to a thread), the connection attempt of the active
\* protocol has succeeded.
C10_ReadyOnlyAfterHandshake ==
  /\ proto # 0 => connectTask[proto] = "ok"
  /\ \A c \in Conns : onOpenPc[c] # "idle" => connectTask[c] = "ok"

\* The number of chunks of a payload of L bytes: the least n with
\* n * SEND_CHUNK_SIZE >= L.
CeilChunks(L) ==
  CHOOSE n \in 0 .. L :
    n * SEND_CHUNK_SIZE >= L /\ (n - 1) * SEND_CHUNK_SIZE < L

\* The socket writes a payload of L bytes is split into, as <<offset, count,
\* end of message>>: full chunks in increasing offset order, then the rest.
ExpectedWrites(L) ==
  LET n == CeilChunks(L)
  IN [i \in 1 .. n |->
        <<SEND_CHUNK_SIZE * (i - 1),
          IF i < n THEN SEND_CHUNK_SIZE ELSE L - SEND_CHUNK_SIZE * (n - 1),
          i = n>>]

\* The bytes of the writes issued, one after the other
WrittenBytes(writes, buffer) ==
  Join([i \in 1 .. Len(writes) |->
          ArraySegment(buffer, writes[i][1], writes[i][2])])

\* A send that got the lock and ran to its end with no write failing
SendRan(s) == sPc[s] \in {"done", "failed"} /\ ~sFaulted[s]

\* C2: a send of L bytes that ran to its end has issued exactly ceil(L/1024)
\* writes, in increasing offset order, all of 1024 bytes but the last, which
\* has the rest and alone is flagged end of message; the bytes written, in
\* order, are the encoded payload.
C2_ChunkedWrites ==
  \A s \in Senders :
    SendRan(s) =>
      /\ sWrites[s] = ExpectedWrites(sLen[s])
      /\ WrittenBytes(sWrites[s], message_buffer(sLen[s]))
           = message_buffer(sLen[s])

\* C2, witness: a payload of 2500 bytes has been sent in writes of 1024,
\* 1024 and 452 bytes.
C2_Witness ==
  /\ sPc["s1"] = "done"
  /\ sLen["s1"] = 2500
  /\ sWrites["s1"] = << <<0, 1024, FALSE>>, <<1024, 1024, FALSE>>,
                        <<2048, 452, TRUE>> >>

\* The senders with a SendAsync task issued and not yet completed
WritesInFlight == {s \in Senders : sPc[s] \in {"pending", "lastPending"}}

\* C11: sends do not overlap: at most one socket write is in flight at a
\* time, so no sender's first chunk is written before the final chunk write
\* of the sender that acquired the lock before it has completed.
C11_OneWriteInFlight == Cardinality(WritesInFlight) <= 1

\* The positions at which the listening loop has ended
LoopEnded == {"exited", "raised"}

\* C12: once a socket read has failed with a transport error, and with no
\* call of terminate() or dispose() from outside, eventually the listening
\* loop has ended, the socket is released and disconnect is signalled.
C12_ReadFailureDisposes ==
  (rxResult.type = "Fault")
    ~> (cancelled
          \/ (llPc \in LoopEnded /\ socket[P] = "None" /\ disconnectEvent))

\* C13: a send_message call made after a dispose() has run to its end fails
\* with the not-open error, and changes neither the semaphore nor the writes
\* issued.
C13_SendAfterDisposeNotOpen ==
  [][\A s \in Senders :
       (sPc[s] = "idle" /\ sPc'[s] # "idle"
          /\ \E d \in Disposers : dPc[d] = "done")
       => (sPc'[s] = "notOpen" /\ permits' = permits /\ held' = held
             /\ sWrites' = sWrites)]_vars

\* Message m has been reassembled (its completion signal is set) and not
\* yet handed to the handler.
CompletedAt(m) ==
  Len(dispatched) = m - 1 /\ mre /\ llPc \in {"wait", "dispatch"}

\* C14: a dispatch ends with the loop running on, whether or not the handler
\* raised; the messages dispatched are the server's messages in the order
\* in which they completed; and when the handler has raised on message m - 1,
\* message m, once reassembled, is dispatched.
C14_HandlerFailureContained ==
  /\ [][(llPc = "dispatch" /\ llPc' # "dispatch")
          => (llPc' = "loop" /\ Len(dispatched') = Len(dispatched) + 1)]_vars
  /\ [](\A m \in 1 .. Len(dispatched) : dispatched[m] = Text(m))
  /\ \A m \in 2 .. MaxMsgs :
       (CompletedAt(m) /\ handlerRaised[m - 1])
         ~> (Len(dispatched) >= m /\ dispatched[m] = Text(m))

\* C14, witness: the handler raised on the first message and the second
\* message has been dispatched.
C14_Witness ==
  /\ Len(dispatched) >= 2
  /\ handlerRaised[1]
  /\ dispatched[2] = Text(2)

\* C15: once the cancellation token has fired, a callback given to
\* call_later whose delay has not elapsed yet is not invoked.
C15_CancelStopsCallback ==
  [][\A k \in Timers : cancelled => fnCalls'[k] = fnCalls[k]]_vars

\* C16: on the receive path releases and acquisitions of the write lock
\* balance: the semaphore's count never exceeds its initial count of one,
\* and once the handling of a message has ended (final fragment handled,
\* close frame handled, or an exception) the receive path does not hold the
\* lock.
C16_ReceiveLockBalanced ==
  /\ permits <= SEMAPHORE_INITIAL
  /\ rxPc \in {"idle", "closed", "raised"} => held["rx"] = 0

\* C17: once a read has completed with a close frame, no further read is
\* issued and on_message is not invoked; the dispose() of the close path
\* runs only when the closing handshake (the close acknowledgment sent by
\* CloseAsync) is over; and eventually the protocol is disposed: the socket
\* released and disconnect signalled.
C17_CloseFrameShutsDown ==
  /\ [][rxResult.type = "Close"
          => (rxPc' # "reading" /\ dispatched' = dispatched)]_vars
  /\ [][(dPc[CloseTask] = "called" /\ dPc'[CloseTask] # "called")
          => sockState[P] \notin {"Open", "CloseReceived"}]_vars
  /\ (rxResult.type = "Close") ~> (socket[P] = "None" /\ disconnectEvent)

\* C17, witness: a close frame was read, and the dispose() attached to the
\* close task has released the socket.
C17_Witness ==
  /\ rxResult.type = "Close"
  /\ dPc[CloseTask] = "done"
  /\ socket[P] = "None"
  /\ sockDisposes = 1

\* The positions at which the listening loop is running or about to
LoopRunning == {"scheduled", "loop", "pump", "wait", "dispatch"}

\* C18 as stated: after the token has fired the listening loop eventually
\* ends, and a message whose reassembly is not complete in a state after
\* the cancellation is never dispatched.
C18_NoDispatchAfterCancel ==
  /\ cancelled ~> (llPc \notin LoopRunning)
  /\ \A m \in 1 .. MaxMsgs :
       []((cancelled /\ Len(dispatched) < m /\ ~CompletedAt(m))
            => [](Len(dispatched) < m))

\* C18, amended: after the token has fired the listening loop eventually
\* ends, and what it still dispatches is a message completely reassembled:
\* the completion signal is set and the text is that of the whole message.
C18_LoopEndsAfterCancel ==
  /\ cancelled ~> (llPc \notin LoopRunning)
  /\ [][(cancelled /\ Len(dispatched') > Len(dispatched))
          => (mre /\ dispatched'[Len(dispatched')] = Text(Len(dispatched')))]_vars

\* C18, witness: the token fired while the loop was running, a message was
\* dispatched, and the loop has ended with the cancellation.
C18_Witness ==
  /\ cancelled
  /\ llPc = "raised"
  /\ Len(dispatched) = 1

\* C19: under every interleaving of dispose() calls, socket.Dispose() is
\* called at most once, no dispose() call raises, and once every call that
\* began has ended the socket reference is cleared.
C19_SocketReleasedOnce ==
  /\ sockDisposes <= 1
  /\ \A d \in Disposers : dPc[d] # "raised"
  /\ (\E d \in Disposers : dPc[d] = "done") => socket[P] = "None"

\* C20: a ReceiveAsync is issued only when none is outstanding and none
\* waits to be handled: by the listening loop when the chunk pump is at rest
\* (first read, or the completion signal of the previous message has fired),
\* or by the continuation that is handling the previous read's fragment.
C20_OneReadOutstanding ==
  [][(rxPc' = "reading"
        /\ (rxPc # "reading" \/ (llPc = "pump" /\ llPc' # "pump")))
       => \/ (llPc = "pump" /\ rxPc = "idle" /\ ~mre)
          \/ (llPc' = llPc /\ rxPc = "handle" /\ ~rxResult.eom)]_vars

\* C20, witness: a message has been dispatched and the loop has issued the
\* first read of the next one.
C20_Witness ==
  /\ Len(dispatched) >= 1
  /\ rxPc = "reading"
  /\ llPc = "wait"

====
